---- MODULE Spec2Model ----
(***************************************************************************)
(* State-machine model of the geomusic 3D audio synthesizer:               *)
(*   js/audio.js        AudioSynthesizer       (record  audio)             *)
(*   js/scene.js        Scene3D                (record  scene)             *)
(*   js/interaction.js  InteractionController  (record  ctl)               *)
(*                                                                         *)
(* Numbers.  JavaScript numbers are modelled as fixed-point integers in    *)
(* thousandths: frequencies in mHz, Q, gains, mixes and normalized         *)
(* coordinates in 1/1000, times in ms, rotations in 1/1000 of pi.  The     *)
(* shape scale is kept in tenths (its step is 0.1) and the argument of     *)
(* setFrequencyNormalized in 25ths (the grid (scale-0.5)/2.5 falls on).    *)
(* Client coordinates are integer pixels.  NaN is not modelled.            *)
(*                                                                         *)
(* Presentation-only writes (document status text, updateUI, button        *)
(* classes, preventDefault) touch no state of the three objects and are    *)
(* not modelled.                                                           *)
(***************************************************************************)
EXTENDS Integers, Sequences, FiniteSets, TLC

VARIABLES
    audio,               \* the AudioSynthesizer
    scene,               \* the Scene3D
    ctl,                 \* the InteractionController
    pending,             \* onClick calls suspended at their await, oldest first
    unhandledRejection,  \* whose promise was last rejected with nobody awaiting it
    last,                \* history: <<name, argument>> of the step taken last
    completed            \* history: activations completed without a throw, modulo 2

vars == <<audio, scene, ctl, pending, unhandledRejection, last, completed>>

(***************************************************************************)
(* Bounds of the model                                                     *)
(***************************************************************************)
\* activations that may be suspended at `await this.audio.init()` at once
MaxPending == 2
\* saturation point of the count of fully built graphs
MaxGraphs == 2

(***************************************************************************)
(* Arithmetic helpers                                                      *)
(***************************************************************************)
Max(a, b) == IF a >= b THEN a ELSE b

Min(a, b) == IF a <= b THEN a ELSE b

\* Math.abs() left out
Abs_Signed(a) == a

Abs(a) == IF a < 0 THEN 0 - a ELSE a

RECURSIVE Pow2(_)
Pow2(n) == IF n <= 0 THEN 1 ELSE 2 * Pow2(n - 1)

\* 1000 * 2^(r/25) for r = 0..24, rounded to the nearest integer
Root25 == <<1000, 1028, 1057, 1087, 1117, 1149, 1181, 1214, 1248, 1283,
            1320, 1357, 1395, 1434, 1474, 1516, 1558, 1602, 1647, 1693,
            1741, 1790, 1840, 1892, 1945>>

\* the power taken with the exponent truncated to whole octaves
ExpFrequency_Octaves(k) ==
    LET q == (4 * k) \div 25
    IN  IF q >= 0 THEN 110000 * Pow2(q) ELSE 110000 \div Pow2(0 - q)

\* Math.pow(maxFreq / minFreq, value) * minFreq with maxFreq/minFreq = 16 and
\* value = k/25:  110 * 2^(4k/25), in mHz.  4k = 25q + r, 0 <= r < 25.
ExpFrequency(k) ==
    LET q == (4 * k) \div 25
        r == (4 * k) % 25
    IN  IF q >= 0 THEN 110 * Pow2(q) * Root25[r + 1]
                  ELSE (110 * Root25[r + 1]) \div Pow2(0 - q)

(***************************************************************************)
(* audio.js : AudioSynthesizer                                             *)
(***************************************************************************)
\* value of a field of the synthesizer that init() has not assigned yet
Undefined == 0 - 1

Waveforms == {"sine", "square", "sawtooth", "triangle"}

\* nodes are <<kind, id>>: id is the graph number for the fixed nodes and the
\* oscillator number for oscillators
Node(kind, g) == <<kind, g>>

Oscillator(i) == <<"oscillator", i>>

\* the connect() calls of init(), for graph number g and oscillator number o
Topology(g, o) ==
    { <<Oscillator(o), Node("gainNode", g)>>,
      <<Node("gainNode", g), Node("filter", g)>>,
      <<Node("filter", g), Node("delayNode", g)>>,
      <<Node("delayNode", g), Node("delayFeedback", g)>>,
      <<Node("delayFeedback", g), Node("delayNode", g)>>,
      <<Node("delayNode", g), Node("delayMix", g)>>,
      <<Node("filter", g), Node("dryGain", g)>>,
      <<Node("delayMix", g), Node("dryGain", g)>>,
      <<Node("dryGain", g), Node("reverb", g)>>,
      <<Node("reverb", g), Node("reverbMixNode", g)>>,
      <<Node("dryGain", g), Node("finalMix", g)>>,
      <<Node("reverbMixNode", g), Node("finalMix", g)>>,
      <<Node("finalMix", g), Node("analyser", g)>>,
      <<Node("analyser", g), Node("masterGain", g)>>,
      <<Node("masterGain", g), Node("destination", g)>> }

\* this.analyser.fftSize
fftSize == 256

\* AnalyserNode.frequencyBinCount: half the FFT size
frequencyBinCount == fftSize \div 2

\* oscillators that still exist for the audio thread: running or wired in
LiveOscillators(a) ==
    a.running \cup { e[1][2] : e \in { d \in a.edges : d[1][1] = "oscillator" } }

\* createOscillator(): a fresh node; numbers of collected nodes are reused
FreshOscillator(a) ==
    CHOOSE i \in 1..(Cardinality(LiveOscillators(a)) + 1) :
        /\ i \notin LiveOscillators(a)
        /\ \A j \in 1..(i - 1) : j \in LiveOscillators(a)

\* the state after `new AudioSynthesizer()`
AudioSynthesizer ==
    [ isPlaying        |-> FALSE,
      initialized      |-> FALSE,
      baseFrequency    |-> 440000,
      currentFrequency |-> 440000,
      filterFrequency  |-> 1000000,
      filterQ          |-> 5000,
      reverbMix        |-> 300,
      delayTime        |-> 200,
      waveform         |-> "sine",
      \* the graph; nothing of it exists before init()
      graphs           |-> 0,            \* graphs built to completion
      oscillator       |-> Undefined,    \* number of this.oscillator
      oscType          |-> "none",       \* this.oscillator.type
      oscFrequency     |-> Undefined,    \* this.oscillator.frequency
      gainNode         |-> Undefined,    \* this.gainNode.gain
      filterNodeFreq   |-> Undefined,    \* this.filter.frequency
      filterNodeQ      |-> Undefined,    \* this.filter.Q
      delayNode        |-> Undefined,    \* this.delayNode.delayTime
      delayFeedback    |-> Undefined,    \* this.delayFeedback.gain
      delayMix         |-> Undefined,    \* this.delayMix.gain
      reverbMixNode    |-> Undefined,    \* this.reverbMixNode.gain
      dryGain          |-> Undefined,    \* this.dryGain.gain
      masterGain       |-> Undefined,    \* this.masterGain.gain
      analyserData     |-> <<>>,         \* this.analyserData; no array before init()
      edges            |-> {},           \* connections made and not undone
      running          |-> {} ]          \* oscillators started and not stopped

\* init() without its `if (this.initialized) return`
init_NoGuard(a) ==
    LET g == Min(a.graphs + 1, MaxGraphs)
        o == FreshOscillator(a)
    IN  [a EXCEPT !.graphs         = g,
                  !.oscillator     = o,
                  !.oscType        = a.waveform,
                  !.oscFrequency   = a.currentFrequency,
                  !.gainNode       = 0,
                  !.filterNodeFreq = a.filterFrequency,
                  !.filterNodeQ    = a.filterQ,
                  !.delayNode      = a.delayTime,
                  !.delayFeedback  = 400,
                  !.delayMix       = 300,
                  !.reverbMixNode  = a.reverbMix,
                  !.dryGain        = 1000 - a.reverbMix,
                  !.masterGain     = 300,
                  !.analyserData   = [i \in 1..frequencyBinCount |-> 0],
                  !.edges          = a.edges \cup Topology(g, o),
                  !.running        = a.running \cup {o},
                  !.initialized    = TRUE]

\* init() leaving the oscillator at createOscillator()'s type, sine
init_DefaultType(a) ==
    IF a.initialized THEN a
    ELSE LET g == Min(a.graphs + 1, MaxGraphs)
             o == FreshOscillator(a)
         IN  [a EXCEPT !.graphs         = g,
                       !.oscillator     = o,
                       !.oscType        = "sine",
                       !.oscFrequency   = a.currentFrequency,
                       !.gainNode       = 0,
                       !.filterNodeFreq = a.filterFrequency,
                       !.filterNodeQ    = a.filterQ,
                       !.delayNode      = a.delayTime,
                       !.delayFeedback  = 400,
                       !.delayMix       = 300,
                       !.reverbMixNode  = a.reverbMix,
                       !.dryGain        = 1000 - a.reverbMix,
                       !.masterGain     = 300,
                       !.analyserData   = [i \in 1..frequencyBinCount |-> 0],
                       !.edges          = a.edges \cup Topology(g, o),
                       !.running        = a.running \cup {o},
                       !.initialized    = TRUE]

\* async init(), run to completion without a throw
init(a) ==
    IF a.initialized THEN a
    ELSE LET g == Min(a.graphs + 1, MaxGraphs)
             o == FreshOscillator(a)
         IN  [a EXCEPT !.graphs         = g,
                       !.oscillator     = o,
                       !.oscType        = a.waveform,
                       !.oscFrequency   = a.currentFrequency,
                       !.gainNode       = 0,
                       !.filterNodeFreq = a.filterFrequency,
                       !.filterNodeQ    = a.filterQ,
                       !.delayNode      = a.delayTime,
                       !.delayFeedback  = 400,
                       !.delayMix       = 300,
                       !.reverbMixNode  = a.reverbMix,
                       !.dryGain        = 1000 - a.reverbMix,
                       !.masterGain     = 300,
                       !.analyserData   = [i \in 1..frequencyBinCount |-> 0],
                       !.edges          = a.edges \cup Topology(g, o),
                       !.running        = a.running \cup {o},
                       !.initialized    = TRUE]

\* start() setting isPlaying and scheduling no ramp
start_NoRamp(a) ==
    IF ~a.initialized THEN a
    ELSE [a EXCEPT !.isPlaying = TRUE]

start(a) ==
    IF ~a.initialized THEN a
    ELSE [a EXCEPT !.isPlaying = TRUE, !.gainNode = 500]

\* stop() that also gives the engine up
stop_Teardown(a) ==
    IF ~a.initialized THEN a
    ELSE [a EXCEPT !.isPlaying = FALSE, !.gainNode = 0, !.initialized = FALSE]

stop(a) ==
    IF ~a.initialized THEN a
    ELSE [a EXCEPT !.isPlaying = FALSE, !.gainNode = 0]

\* setFrequency() without its `if (!this.initialized) return`
setFrequency_NoGuard(a, freq) ==
    LET f == Max(50000, Min(2000000, freq))
    IN  [a EXCEPT !.currentFrequency = f, !.oscFrequency = f]

\* setFrequency() storing its argument unclamped
setFrequency_NoClamp(a, freq) ==
    IF ~a.initialized THEN a
    ELSE [a EXCEPT !.currentFrequency = freq, !.oscFrequency = freq]

setFrequency(a, freq) ==
    IF ~a.initialized THEN a
    ELSE LET f == Max(50000, Min(2000000, freq))
         IN  [a EXCEPT !.currentFrequency = f, !.oscFrequency = f]

\* setFilterFrequency() clamping to the oscillator's range [20, 2000]
setFilterFrequency_OscillatorRange(a, freq) ==
    IF ~a.initialized THEN a
    ELSE LET f == Max(20000, Min(2000000, freq))
         IN  [a EXCEPT !.filterFrequency = f, !.filterNodeFreq = f]

setFilterFrequency(a, freq) ==
    IF ~a.initialized THEN a
    ELSE LET f == Max(200000, Min(5000000, freq))
         IN  [a EXCEPT !.filterFrequency = f, !.filterNodeFreq = f]

\* setFilterQ() without its `if (!this.initialized) return`
setFilterQ_NoGuard(a, q) ==
    LET v == Max(1000, Min(20000, q))
    IN  [a EXCEPT !.filterQ = v, !.filterNodeQ = v]

setFilterQ(a, q) ==
    IF ~a.initialized THEN a
    ELSE LET v == Max(1000, Min(20000, q))
         IN  [a EXCEPT !.filterQ = v, !.filterNodeQ = v]

setReverbMix(a, mix) ==
    IF ~a.initialized THEN a
    ELSE LET v == Max(0, Min(1000, mix))
         IN  [a EXCEPT !.reverbMix = v, !.reverbMixNode = v]

setDelayTime(a, time) ==
    IF ~a.initialized THEN a
    ELSE LET v == Max(0, Min(500, time))
         IN  [a EXCEPT !.delayTime = v, !.delayNode = v]

\* setWaveform() connecting the new oscillator to the filter, past the gain node
setWaveform_PastGain(a, type) ==
    IF ~a.initialized THEN [a EXCEPT !.waveform = type]
    ELSE LET old  == Oscillator(a.oscillator)
             cut  == [a EXCEPT !.waveform = type,
                               !.edges    = { e \in a.edges : e[1] # old },
                               !.running  = a.running \ {a.oscillator}]
             o    == FreshOscillator(cut)
         IN  [cut EXCEPT !.oscillator   = o,
                         !.oscType      = type,
                         !.oscFrequency = a.currentFrequency,
                         !.edges        = cut.edges \cup
                                            {<<Oscillator(o), Node("filter", a.graphs)>>},
                         !.running      = cut.running \cup {o}]

\* setWaveform() leaving the new oscillator at createOscillator()'s 440 Hz
setWaveform_DefaultFrequency(a, type) ==
    IF ~a.initialized THEN [a EXCEPT !.waveform = type]
    ELSE LET old  == Oscillator(a.oscillator)
             cut  == [a EXCEPT !.waveform = type,
                               !.edges    = { e \in a.edges : e[1] # old },
                               !.running  = a.running \ {a.oscillator}]
             o    == FreshOscillator(cut)
         IN  [cut EXCEPT !.oscillator   = o,
                         !.oscType      = type,
                         !.oscFrequency = 440000,
                         !.edges        = cut.edges \cup
                                            {<<Oscillator(o), Node("gainNode", a.graphs)>>},
                         !.running      = cut.running \cup {o}]

setWaveform(a, type) ==
    IF ~a.initialized THEN [a EXCEPT !.waveform = type]
    ELSE LET old  == Oscillator(a.oscillator)
             \* this.oscillator.disconnect(); this.oscillator.stop();
             cut  == [a EXCEPT !.waveform = type,
                               !.edges    = { e \in a.edges : e[1] # old },
                               !.running  = a.running \ {a.oscillator}]
             o    == FreshOscillator(cut)
         IN  [cut EXCEPT !.oscillator   = o,
                         !.oscType      = type,
                         !.oscFrequency = a.currentFrequency,
                         !.edges        = cut.edges \cup
                                            {<<Oscillator(o), Node("gainNode", a.graphs)>>},
                         !.running      = cut.running \cup {o}]

\* the loop of getAudioLevel(): the sum of bins lo..hi, added up by halves to
\* keep the evaluation shallow
RECURSIVE Sum(_, _, _)
Sum(data, lo, hi) ==
    IF lo > hi THEN 0
    ELSE IF lo = hi THEN data[lo]
    ELSE LET mid == (lo + hi) \div 2
         IN  Sum(data, lo, mid) + Sum(data, mid + 1, hi)

\* this.analyser.getByteFrequencyData(this.analyserData): the analyser writes
\* the spectrum it holds, bytes, over the array
getByteFrequencyData(a, bytes) == [a EXCEPT !.analyserData = bytes]

\* the engine after getAudioLevel()
getAudioLevelEffect(a, bytes) ==
    IF ~a.initialized THEN a ELSE getByteFrequencyData(a, bytes)

\* getAudioLevel() returning the mean bin, the division by 255 left out
getAudioLevel_MeanOnly(a, bytes) ==
    IF ~a.initialized THEN 0
    ELSE LET data == getAudioLevelEffect(a, bytes).analyserData
         IN  (Sum(data, 1, Len(data)) * 1000) \div Len(data)

\* the value getAudioLevel() returns, in thousandths
getAudioLevel(a, bytes) ==
    IF ~a.initialized THEN 0
    ELSE LET data == getAudioLevelEffect(a, bytes).analyserData
         IN  (Sum(data, 1, Len(data)) * 1000) \div (Len(data) * 255)

\* setFrequencyNormalized() interpolating linearly between minFreq and maxFreq
setFrequencyNormalized_Linear(a, k) == setFrequency(a, 110000 + 66000 * k)

\* k is the normalized value in 25ths
setFrequencyNormalized(a, k) == setFrequency(a, ExpFrequency(k))

(***************************************************************************)
(* scene.js : Scene3D (the part the controller drives)                     *)
(***************************************************************************)
Shapes == {"icosahedron", "torus", "octahedron", "dodecahedron"}

\* the state after `new Scene3D(canvas)`; the mesh exists from then on
Scene3D ==
    [ audioLevel      |-> 0,
      targetRotationX |-> 0,
      targetRotationY |-> 0,
      currentScale    |-> 10,
      geometry        |-> "icosahedron",
      meshPosition    |-> <<0, 0>> ]

\* a new mesh replaces the old one; a new THREE.Mesh sits at the origin
createGeometry(s, type) ==
    [s EXCEPT !.geometry     = IF type \in Shapes THEN type ELSE "icosahedron",
              !.meshPosition = <<0, 0>>]

setAudioLevel(s, level) == [s EXCEPT !.audioLevel = level]

setRotation(s, x, y) == [s EXCEPT !.targetRotationX = x, !.targetRotationY = y]

setScale(s, scale) == [s EXCEPT !.currentScale = Max(5, Min(30, scale))]

setPosition(s, x, y) == [s EXCEPT !.meshPosition = <<x, y>>]

(***************************************************************************)
(* interaction.js : InteractionController                                  *)
(***************************************************************************)
\* this.canvas.getBoundingClientRect(): left, top, width, height in pixels
RectLeft == 10

RectTop == 20

RectWidth == 10

RectHeight == 10

\* the state after `new InteractionController(canvas, scene, audio)`
InteractionController ==
    [ mouseX       |-> 0,
      mouseY       |-> 0,
      isDragging   |-> FALSE,
      dragStartX   |-> 0,
      dragStartY   |-> 0,
      shapeOffsetX |-> 0,
      shapeOffsetY |-> 0 ]

\* onClick calling start() whatever isPlaying is
toggle_AlwaysStart(a) == start(a)

\* onClick's toggle: if (isPlaying) stop() else start()
toggle(a) == IF a.isPlaying THEN stop(a) ELSE start(a)

\* e = <<clientX, clientY>>
onMouseMove(e) ==
    LET mouseX     == ((e[1] - RectLeft) * 1000) \div RectWidth
        mouseY     == ((e[2] - RectTop) * 1000) \div RectHeight
        rotationX  == (mouseY - 500) * 2
        rotationY  == (mouseX - 500) * 2
        filterFreq == 200000 + mouseX * 4800
        filterQ    == 1000 + mouseY * 19
        dragX      == ((e[1] - ctl.dragStartX) * 1000) \div RectWidth
        dragY      == ((e[2] - ctl.dragStartY) * 1000) \div RectHeight
        delayTime  == Abs(dragX) \div 2
        reverbMix  == Abs(dragY)
        s1         == setRotation(scene, rotationX, rotationY)
        a1         == setFilterQ(setFilterFrequency(audio, filterFreq), filterQ)
    IN  /\ IF ctl.isDragging
           THEN /\ ctl' = [ctl EXCEPT !.mouseX = mouseX, !.mouseY = mouseY,
                                      !.shapeOffsetX = dragX * 4,
                                      !.shapeOffsetY = (0 - dragY) * 4]
                /\ scene' = setPosition(s1, dragX * 4, (0 - dragY) * 4)
                /\ audio' = setReverbMix(setDelayTime(a1, delayTime), reverbMix)
           ELSE /\ ctl' = [ctl EXCEPT !.mouseX = mouseX, !.mouseY = mouseY]
                /\ scene' = s1
                /\ audio' = a1
        /\ UNCHANGED <<pending, unhandledRejection>>

\* onWheel with `e.deltaY >= 0 ? -0.1 : 0.1`
onWheel_ZeroDown(deltaY) ==
    LET delta == IF deltaY >= 0 THEN 0 - 1 ELSE 1
        scale == Max(5, Min(30, scene.currentScale + delta))
    IN  /\ scene' = setScale(scene, scale)
        /\ audio' = setFrequencyNormalized(audio, scale - 5)
        /\ UNCHANGED <<ctl, pending, unhandledRejection>>

\* deltaY is the wheel delta of the event
onWheel(deltaY) ==
    LET delta == IF deltaY > 0 THEN 0 - 1 ELSE 1
        scale == Max(5, Min(30, scene.currentScale + delta))
    IN  /\ scene' = setScale(scene, scale)
        \* normalizedScale = (scale - 0.5) / 2.5, in 25ths: scale - 5 tenths
        /\ audio' = setFrequencyNormalized(audio, scale - 5)
        /\ UNCHANGED <<ctl, pending, unhandledRejection>>

\* async onClick: up to the await when the engine is uninitialized, else the
\* whole handler.  platformOk: whether the platform lets init() build the
\* graph; a throw inside init() leaves the engine as it was (the fields it
\* assigned are not read while initialized is false) and rejects the promise.
onClick(platformOk) ==
    IF ~audio.initialized
    THEN /\ Len(pending) < MaxPending
         /\ audio' = IF platformOk THEN init(audio) ELSE audio
         /\ pending' = Append(pending, IF platformOk THEN "fulfilled" ELSE "rejected")
         /\ UNCHANGED <<scene, ctl, unhandledRejection>>
    ELSE /\ audio' = toggle(audio)
         /\ UNCHANGED <<scene, ctl, pending, unhandledRejection>>

\* a continuation that swallows the rejection and goes on to the toggle
onClickResume_Swallow ==
    /\ pending # <<>>
    /\ pending' = Tail(pending)
    /\ audio' = toggle(audio)
    /\ UNCHANGED <<scene, ctl, unhandledRejection>>

\* the continuation of the oldest suspended onClick, after its await
onClickResume ==
    /\ pending # <<>>
    /\ pending' = Tail(pending)
    /\ IF Head(pending) = "fulfilled"
       THEN /\ audio' = toggle(audio)
            /\ UNCHANGED unhandledRejection
       ELSE /\ unhandledRejection' = "onClick"
            /\ UNCHANGED audio
    /\ UNCHANGED <<scene, ctl>>

\* onMouseDown() setting the flag and leaving the origin where it was
onMouseDown_KeepOrigin(e) ==
    /\ ctl' = [ctl EXCEPT !.isDragging = TRUE]
    /\ UNCHANGED <<audio, scene, pending, unhandledRejection>>

onMouseDown(e) ==
    /\ ctl' = [ctl EXCEPT !.isDragging = TRUE, !.dragStartX = e[1], !.dragStartY = e[2]]
    /\ UNCHANGED <<audio, scene, pending, unhandledRejection>>

\* onMouseUp without its "reset effects to defaults"
onMouseUp_NoReset ==
    /\ ctl' = [ctl EXCEPT !.isDragging = FALSE, !.shapeOffsetX = 0, !.shapeOffsetY = 0]
    /\ scene' = setPosition(scene, 0, 0)
    /\ UNCHANGED <<audio, pending, unhandledRejection>>

onMouseUp ==
    /\ ctl' = [ctl EXCEPT !.isDragging = FALSE, !.shapeOffsetX = 0, !.shapeOffsetY = 0]
    /\ scene' = setPosition(scene, 0, 0)
    /\ audio' = setReverbMix(setDelayTime(audio, 200), 300)
    /\ UNCHANGED <<pending, unhandledRejection>>

\* touches: the sequence e.touches of client points
onTouchStart(touches) ==
    IF Len(touches) > 0 THEN onMouseDown(touches[1])
    ELSE UNCHANGED <<audio, scene, ctl, pending, unhandledRejection>>

\* onTouchMove() taking the newest touch point instead of touches[0]
onTouchMove_NewestTouch(touches) ==
    IF Len(touches) > 0 THEN onMouseMove(touches[Len(touches)])
    ELSE UNCHANGED <<audio, scene, ctl, pending, unhandledRejection>>

onTouchMove(touches) ==
    IF Len(touches) > 0 THEN onMouseMove(touches[1])
    ELSE UNCHANGED <<audio, scene, ctl, pending, unhandledRejection>>

onTouchEnd == onMouseUp

changeShape(shape) ==
    /\ scene' = createGeometry(scene, shape)
    /\ UNCHANGED <<audio, ctl, pending, unhandledRejection>>

\* changeWaveform() that also starts playback with the new waveform
changeWaveform_AndStart(wave) ==
    /\ audio' = start(setWaveform(audio, wave))
    /\ UNCHANGED <<scene, ctl, pending, unhandledRejection>>

changeWaveform(wave) ==
    /\ audio' = setWaveform(audio, wave)
    /\ UNCHANGED <<scene, ctl, pending, unhandledRejection>>

ShapeOfKey == [k \in {"1", "2", "3", "4"} |->
                 CASE k = "1" -> "icosahedron" [] k = "2" -> "torus"
                   [] k = "3" -> "octahedron"  [] k = "4" -> "dodecahedron"]

WaveOfKey == [k \in {"q", "w", "e", "r"} |->
                CASE k = "q" -> "sine"     [] k = "w" -> "square"
                  [] k = "e" -> "sawtooth" [] k = "r" -> "triangle"]

onKeyDown(key, platformOk) ==
    IF key \in DOMAIN ShapeOfKey THEN changeShape(ShapeOfKey[key])
    ELSE IF key \in DOMAIN WaveOfKey THEN changeWaveform(WaveOfKey[key])
    ELSE IF key = " " THEN onClick(platformOk)
    ELSE UNCHANGED <<audio, scene, ctl, pending, unhandledRejection>>

(***************************************************************************)
(* Inputs                                                                  *)
(***************************************************************************)
\* client points of mouse events: inside the canvas rectangle
MousePoints ==
    { <<RectLeft, RectTop>>,
      <<RectLeft + RectWidth - 1, RectTop + RectHeight \div 2>>,
      <<RectLeft + RectWidth, RectTop + RectHeight>> }

\* a touch keeps its target while the finger leaves the canvas
OutsidePoints == { <<RectLeft + RectWidth + 2, RectTop - 5>> }

TouchLists ==
    {<<>>} \cup { <<p>> : p \in MousePoints \cup OutsidePoints }
           \cup { <<p, q>> : p \in OutsidePoints, q \in { <<RectLeft, RectTop>> } }

WheelDeltas == { 0 - 100, 0, 100 }

\* one key per branch of onKeyDown and every waveform key
Keys == { "1", "2", "q", "w", "e", "r", " ", "x" }

(***************************************************************************)
(* The application: main.js wires one scene, one synthesizer and one       *)
(* controller; every listener is an action.                                *)
(***************************************************************************)
\* spectra the analyser may hold: silence, full scale, one loud bin, a slope
ByteBuffers ==
    { [i \in 1..frequencyBinCount |-> 0],
      [i \in 1..frequencyBinCount |-> 255],
      [i \in 1..frequencyBinCount |-> IF i = 1 THEN 255 ELSE 0],
      [i \in 1..frequencyBinCount |-> i - 1] }

Init ==
    /\ audio = AudioSynthesizer
    /\ scene = Scene3D
    /\ ctl = InteractionController
    /\ pending = <<>>
    /\ unhandledRejection = "none"
    /\ last = <<"new", 0>>
    /\ completed = 0

Flag(b) == IF b THEN 1 ELSE 0

\* a client point as one number, for the history
PointCode(e) == e[1] * 1000 + e[2]

\* the first touch point as one number; -1 when no touch is active
TouchCode(t) == IF Len(t) > 0 THEN PointCode(t[1]) ELSE 0 - 1

\* main.js animate(): one render tick; the mesh transforms of scene.update()
\* and the drawing are not part of the state
animate(bytes) ==
    /\ audio' = getAudioLevelEffect(audio, bytes)
    /\ scene' = setAudioLevel(scene, getAudioLevel(audio, bytes))
    /\ UNCHANGED <<ctl, pending, unhandledRejection>>

\* a key as one number, for the history: the space bar is recorded by what the
\* platform answered, the waveform keys as 11..14, the shape keys as 21..24
KeyCode(key, platformOk) ==
    CASE key = " " -> Flag(platformOk)
      [] key = "q" -> 11 [] key = "w" -> 12 [] key = "e" -> 13 [] key = "r" -> 14
      [] key = "1" -> 21 [] key = "2" -> 22 [] key = "3" -> 23 [] key = "4" -> 24
      [] OTHER -> 9

\* a waveform button as one number, in the order of the waveform keys
WaveCode(wave) ==
    CASE wave = "sine" -> 11 [] wave = "square" -> 12
      [] wave = "sawtooth" -> 13 [] wave = "triangle" -> 14

\* the history variables: done says that this step completes an activation
History(name, arg, done) ==
    /\ last' = <<name, arg>>
    /\ completed' = IF done THEN 1 - completed ELSE completed

\* the platform is consulted only when init() has a graph to build
PlatformAsked(platformOk) == platformOk \/ ~audio.initialized

MouseMove == \E e \in MousePoints : onMouseMove(e) /\ History("mousemove", PointCode(e), FALSE)

Wheel == \E deltaY \in WheelDeltas : onWheel(deltaY) /\ History("wheel", deltaY, FALSE)

Click ==
    \E platformOk \in BOOLEAN :
        /\ PlatformAsked(platformOk)
        /\ onClick(platformOk)
        /\ History("click", Flag(platformOk), audio.initialized)

ClickResume ==
    /\ onClickResume
    /\ History("resume", Flag(Head(pending) = "fulfilled"), Head(pending) = "fulfilled")

MouseDown == \E e \in MousePoints : onMouseDown(e) /\ History("mousedown", PointCode(e), FALSE)

MouseUp == onMouseUp /\ History("mouseup", 0, FALSE)

TouchStart == \E t \in TouchLists : onTouchStart(t) /\ History("touchstart", TouchCode(t), FALSE)

TouchMove == \E t \in TouchLists : onTouchMove(t) /\ History("touchmove", TouchCode(t), FALSE)

TouchEnd == onTouchEnd /\ History("touchend", 0, FALSE)

KeyDown ==
    \E key \in Keys, platformOk \in BOOLEAN :
        /\ IF key = " " THEN PlatformAsked(platformOk) ELSE platformOk
        /\ onKeyDown(key, platformOk)
        /\ History("keydown", KeyCode(key, platformOk), key = " " /\ audio.initialized)

\* main.js: the shape and waveform buttons
ShapeButton == \E shape \in Shapes : changeShape(shape) /\ History("shapebutton", 0, FALSE)

WaveButton == \E wave \in Waveforms : changeWaveform(wave) /\ History("wavebutton", WaveCode(wave), FALSE)

\* a direct call of the engine's init(), not awaited by anyone
CallInit ==
    \E platformOk \in BOOLEAN :
        /\ PlatformAsked(platformOk)
        /\ IF platformOk
           THEN audio' = init(audio) /\ UNCHANGED unhandledRejection
           ELSE unhandledRejection' = "init" /\ UNCHANGED audio
        /\ UNCHANGED <<scene, ctl, pending>>
        /\ History("init", Flag(platformOk), FALSE)

\* activation, wheel, keys and the waveform buttons
Next ==
    \/ Click
    \/ ClickResume
    \/ CallInit
    \/ Wheel
    \/ KeyDown
    \/ WaveButton

Spec == Init /\ [][Next]_vars

\* activation, the pointer (mouse and touch) and the shape buttons
NextPointer ==
    \/ Click
    \/ ClickResume
    \/ MouseMove
    \/ MouseDown
    \/ MouseUp
    \/ TouchStart
    \/ TouchMove
    \/ TouchEnd
    \/ ShapeButton

SpecPointer == Init /\ [][NextPointer]_vars

\* requestAnimationFrame: a render tick, with any spectrum in the analyser
Animate == \E bytes \in ByteBuffers : animate(bytes) /\ History("animate", 0, FALSE)

\* the render loop beside activation and the keys
NextRender ==
    \/ Click
    \/ ClickResume
    \/ KeyDown
    \/ Animate

SpecRender == Init /\ [][NextRender]_vars

\* the keyboard (space bar, waveform and shape keys), the wheel and the pointer
\* without drags, in any order before and after the first activation
NextInput ==
    \/ KeyDown
    \/ ClickResume
    \/ Wheel
    \/ MouseMove

SpecInput == Init /\ [][NextInput]_vars

(***************************************************************************)
(* The engine alone: any caller, any argument                              *)
(***************************************************************************)
FrequencyArgs == { 0 - 5000, 49999, 50000, 261626, 2000000, 2000001 }

FilterFrequencyArgs == { 0, 199999, 200000, 5000000, 5000001 }

FilterQArgs == { 0 - 1000, 999, 1000, 20000, 20001 }

ReverbMixArgs == { 0 - 1, 0, 1000, 1001 }

DelayTimeArgs == { 0 - 1, 0, 500, 501 }

NormalizedArgs == { 0 - 25, 0, 25, 50 }

Call(a, name, arg) ==
    /\ audio' = a
    /\ History(name, arg, FALSE)
    /\ UNCHANGED <<scene, ctl, pending, unhandledRejection>>

CallStart == Call(start(audio), "start", 0)

CallStop == Call(stop(audio), "stop", 0)

CallSetFrequency == \E freq \in FrequencyArgs : Call(setFrequency(audio, freq), "setFrequency", freq)

CallSetFilterFrequency ==
    \E freq \in FilterFrequencyArgs : Call(setFilterFrequency(audio, freq), "setFilterFrequency", freq)

CallSetFilterQ == \E q \in FilterQArgs : Call(setFilterQ(audio, q), "setFilterQ", q)

CallSetReverbMix == \E mix \in ReverbMixArgs : Call(setReverbMix(audio, mix), "setReverbMix", mix)

CallSetDelayTime == \E time \in DelayTimeArgs : Call(setDelayTime(audio, time), "setDelayTime", time)

CallSetWaveform == \E type \in Waveforms : Call(setWaveform(audio, type), "setWaveform", 0)

CallSetFrequencyNormalized ==
    \E k \in NormalizedArgs : Call(setFrequencyNormalized(audio, k), "setFrequencyNormalized", k)

NextEngine ==
    \/ CallInit
    \/ CallStart
    \/ CallStop
    \/ CallSetFrequency
    \/ CallSetFilterFrequency
    \/ CallSetFilterQ
    \/ CallSetReverbMix
    \/ CallSetDelayTime
    \/ CallSetWaveform
    \/ CallSetFrequencyNormalized

SpecEngine == Init /\ [][NextEngine]_vars

(***************************************************************************)
(* Properties                                                              *)
(***************************************************************************)
\* the bound nearest to v in [lo, hi], or v itself
Nearest(lo, hi, v) == IF v < lo THEN lo ELSE IF v > hi THEN hi ELSE v

\* C1: in every state each stored parameter lies in its declared range
\* (frequency 50..2000 Hz, filterFrequency 200..5000 Hz, filterQ 1..20,
\* reverbMix 0..1, delayTime 0..0.5 s), and a setter called on the initialized
\* engine stores its argument, or the nearest bound when it is out of range.
C1_ParametersClamped ==
    /\ audio.currentFrequency \in 50000..2000000
    /\ audio.filterFrequency \in 200000..5000000
    /\ audio.filterQ \in 1000..20000
    /\ audio.reverbMix \in 0..1000
    /\ audio.delayTime \in 0..500
    /\ audio.initialized =>
         /\ last[1] = "setFrequency" =>
              audio.currentFrequency = Nearest(50000, 2000000, last[2])
         /\ last[1] = "setFilterFrequency" =>
              audio.filterFrequency = Nearest(200000, 5000000, last[2])
         /\ last[1] = "setFilterQ" => audio.filterQ = Nearest(1000, 20000, last[2])
         /\ last[1] = "setReverbMix" => audio.reverbMix = Nearest(0, 1000, last[2])
         /\ last[1] = "setDelayTime" => audio.delayTime = Nearest(0, 500, last[2])

\* an out-of-range frequency was passed and the upper bound was stored
C1_Witness ==
    /\ audio.initialized
    /\ last = <<"setFrequency", 2000001>>
    /\ audio.currentFrequency = 2000000
    /\ audio.delayTime = 0

\* C2: while the engine is uninitialized everything it stores is what the
\* constructor set, except the waveform: start, stop and the setters are
\* no-ops there and setWaveform changes the stored waveform only.
C2_UninitializedNoOps ==
    ~audio.initialized => audio = [AudioSynthesizer EXCEPT !.waveform = audio.waveform]

\* a setter was called on the uninitialized engine after a waveform change
C2_Witness ==
    /\ ~audio.initialized
    /\ last = <<"setFilterQ", 20001>>
    /\ audio.waveform = "square"

\* C3: initialized is never reset, isPlaying holds only on an initialized
\* engine, and isPlaying changes only by start() or stop() on an initialized
\* engine.
C3_PlaybackStateMachine ==
    [][ /\ audio.initialized => audio'.initialized
        /\ audio'.isPlaying => audio'.initialized
        /\ audio'.isPlaying # audio.isPlaying =>
             /\ audio.initialized
             /\ audio' \in {start(audio), stop(audio)} ]_vars

\* a click on the playing engine has stopped it: initialized-stopped again
C3_Witness ==
    /\ audio.initialized
    /\ ~audio.isPlaying
    /\ last[1] = "click"
    /\ pending = <<>>

C5_SecondActivationIgnored ==
    [][ (pending # <<>> /\ last'[1] = "click") =>
           (audio' = audio /\ pending' = pending) ]_vars

\* C6: every activation that completes without a throw flips isPlaying once,
\* so isPlaying holds exactly when the number of such activations is odd.
C6_PlayingIffOddActivations ==
    /\ audio.isPlaying <=> completed = 1
    /\ completed = 1 => audio.initialized

\* the first activation has built the graph and left the engine playing
C6_Witness ==
    /\ last = <<"resume", 1>>
    /\ audio.isPlaying
    /\ audio.graphs = 1
    /\ pending = <<>>

\* C7: an activation whose init() throws leaves the engine uninitialized and
\* untouched, its continuation performs no toggle and its rejection is
\* visible; whenever the engine is initialized, also after such failures, it
\* has exactly one graph.
C7_FailedInitPropagates ==
    [][ /\ (~audio.initialized /\ last' \in {<<"click", 0>>, <<"keydown", 0>>}) =>
             /\ audio' = audio
             /\ pending' = Append(pending, "rejected")
        /\ last' = <<"resume", 0>> =>
             /\ audio' = audio
             /\ unhandledRejection' = "onClick"
        /\ audio'.initialized =>
             /\ audio'.graphs = 1
             /\ audio'.running = {audio'.oscillator}
             /\ audio'.edges = Topology(1, audio'.oscillator) ]_vars

\* after a failed activation a later one has initialized and started the engine
C7_Witness ==
    /\ unhandledRejection = "onClick"
    /\ last = <<"resume", 1>>
    /\ audio.initialized
    /\ audio.isPlaying
    /\ pending = <<>>

\* C8: right after a mouse-up or a touch-end the stored delayTime is 0.2 s
\* and reverbMix 0.3, the shape is at the origin and no drag is active,
\* whether or not the engine is initialized.
C8_DragEndResets ==
    last[1] \in {"mouseup", "touchend"} =>
        /\ audio.delayTime = 200
        /\ audio.reverbMix = 300
        /\ scene.meshPosition = <<0, 0>>
        /\ ctl.shapeOffsetX = 0
        /\ ctl.shapeOffsetY = 0
        /\ ~ctl.isDragging

\* a drag on the initialized engine has just ended away from where it began
C8_Witness ==
    /\ last[1] = "mouseup"
    /\ audio.initialized
    /\ audio.delayNode = 200
    /\ ctl.dragStartX = RectLeft + RectWidth
    /\ ctl.mouseX = 0

\* C9: the scale stays in [0.5, 3]; a wheel event moves it one step of 0.1,
\* down if deltaY > 0 and up otherwise, and leaves it at the bound it is at.
C9_ScaleSteps ==
    [][ /\ scene'.currentScale \in 5..30
        /\ last'[1] = "wheel" =>
             scene'.currentScale =
               IF last'[2] > 0
               THEN (IF scene.currentScale = 5 THEN 5 ELSE scene.currentScale - 1)
               ELSE (IF scene.currentScale = 30 THEN 30 ELSE scene.currentScale + 1) ]_vars

\* a wheel event with deltaY = 0 at the upper bound
C9_Witness ==
    /\ last = <<"wheel", 0>>
    /\ scene.currentScale = 30

WheelDerived == audio.currentFrequency = ExpFrequency(scene.currentScale - 5)

LastX == ((last[2] \div 1000 - RectLeft) * 1000) \div RectWidth
LastY == (((last[2] % 1000) - RectTop) * 1000) \div RectHeight

\* the last event was a pointer move that carried a point
Moved == last[1] = "mousemove" \/ (last[1] = "touchmove" /\ last[2] >= 0)

\* C12: after a pointer move to normalized (x, y) in [0,1]^2 on an initialized
\* engine the filter cutoff is 200 + 4800 x Hz and the resonance 1 + 19 y, stored
\* and on the node alike, so the clamp changes nothing: (0,0) gives 200 Hz and
\* Q 1, (1,1) gives 5000 Hz and Q 20.
C12_PointerFilter ==
    (audio.initialized /\ Moved /\ LastX \in 0..1000 /\ LastY \in 0..1000) =>
        /\ audio.filterFrequency = 200000 + 4800 * LastX
        /\ audio.filterNodeFreq = 200000 + 4800 * LastX
        /\ audio.filterQ = 1000 + 19 * LastY
        /\ audio.filterNodeQ = 1000 + 19 * LastY
        /\ (LastX = 0 /\ LastY = 0) =>
               audio.filterFrequency = 200000 /\ audio.filterQ = 1000
        /\ (LastX = 1000 /\ LastY = 1000) =>
               audio.filterFrequency = 5000000 /\ audio.filterQ = 20000

\* a move to the far corner of the canvas on the initialized engine
C12_Witness ==
    /\ audio.initialized
    /\ last[1] = "mousemove"
    /\ LastX = 1000
    /\ LastY = 1000
    /\ audio.filterFrequency = 5000000
    /\ audio.filterQ = 20000

\* C13: a pointer move during a drag on an initialized engine, at normalized
\* displacement (dx, dy) from the drag origin, sets the delay time to
\* min(0.5, |dx| / 2) s and the reverb mix to min(1, |dy|), whatever the signs
\* (dx = -0.1 gives 0.05 s); a pointer move outside a drag leaves delay time,
\* reverb mix and shape position as they were.
C13_DragEffects ==
    [][ (last'[1] = "mousemove" \/ (last'[1] = "touchmove" /\ last'[2] >= 0)) =>
          LET dx  == ((last'[2] \div 1000 - ctl.dragStartX) * 1000) \div RectWidth
              dy  == (((last'[2] % 1000) - ctl.dragStartY) * 1000) \div RectHeight
              adx == IF dx < 0 THEN 0 - dx ELSE dx
              ady == IF dy < 0 THEN 0 - dy ELSE dy
          IN  /\ (audio.initialized /\ ctl.isDragging) =>
                    /\ audio'.delayTime = Min(500, adx \div 2)
                    /\ audio'.delayNode = Min(500, adx \div 2)
                    /\ audio'.reverbMix = Min(1000, ady)
                    /\ audio'.reverbMixNode = Min(1000, ady)
                    /\ dx = 0 - 100 => audio'.delayTime = 50
              /\ ~ctl.isDragging =>
                    /\ audio'.delayTime = audio.delayTime
                    /\ audio'.delayNode = audio.delayNode
                    /\ audio'.reverbMix = audio.reverbMix
                    /\ audio'.reverbMixNode = audio.reverbMixNode
                    /\ scene'.meshPosition = scene.meshPosition
                    /\ ctl'.shapeOffsetX = ctl.shapeOffsetX
                    /\ ctl'.shapeOffsetY = ctl.shapeOffsetY ]_vars

\* a drag from the far corner moved a tenth of the width to the left
C13_Witness ==
    /\ audio.initialized
    /\ ctl.isDragging
    /\ last = <<"mousemove", PointCode(<<RectLeft + RectWidth - 1, RectTop + RectHeight \div 2>>)>>
    /\ ctl.dragStartX = RectLeft + RectWidth
    /\ audio.delayTime = 50
    /\ audio.reverbMix = 500

\* the connections that do not start at an oscillator
FixedEdges(a) == { e \in a.edges : e[1][1] # "oscillator" }

\* C14: a waveform switch on an initialized engine is a pure oscillator swap:
\* the stored frequency stays and is the new oscillator's frequency, isPlaying
\* and the gain target stay, and so do every other stored parameter, every other
\* node parameter and every connection that does not start at the oscillator.
C14_WaveformSwapFrame ==
    [][ (audio.initialized /\ last'[1] = "setWaveform") =>
          /\ audio'.currentFrequency = audio.currentFrequency
          /\ audio'.oscFrequency = audio.currentFrequency
          /\ audio'.isPlaying = audio.isPlaying
          /\ audio'.gainNode = audio.gainNode
          /\ audio'.oscType = audio'.waveform
          /\ FixedEdges(audio') = FixedEdges(audio)
          /\ audio' = [audio EXCEPT !.waveform     = audio'.waveform,
                                    !.oscillator   = audio'.oscillator,
                                    !.oscType      = audio'.oscType,
                                    !.oscFrequency = audio'.oscFrequency,
                                    !.edges        = audio'.edges,
                                    !.running      = audio'.running] ]_vars

\* a swap to square on a playing engine tuned away from the default 440 Hz
C14_Witness ==
    /\ audio.initialized
    /\ audio.isPlaying
    /\ last[1] = "setWaveform"
    /\ audio.oscType = "square"
    /\ audio.currentFrequency = 2000000
    /\ audio.oscFrequency = 2000000
    /\ audio.gainNode = 500

\* C15 as stated, its last part: reading the level changes no engine state.
C15_LevelReadPure == [][ last'[1] = "animate" => audio' = audio ]_vars

\* C15 amended: the level a render tick hands the renderer is exactly 0 while the
\* engine is uninitialized; once it is initialized the level is the mean of the
\* analyser's byte bins divided by 255, a value in [0,1] whatever the bins hold
\* in 0..255; the read changes nothing of the engine but the contents of the
\* array the bins are copied into.
C15_AudioLevel ==
    [][ last'[1] = "animate" =>
          /\ ~audio.initialized => (scene'.audioLevel = 0 /\ audio' = audio)
          /\ audio.initialized =>
               LET data  == audio'.analyserData
                   total == Sum(data, 1, frequencyBinCount)
                   level == scene'.audioLevel
               IN  /\ Len(data) = frequencyBinCount
                   /\ \A i \in 1..frequencyBinCount : data[i] \in 0..255
                   /\ level \in 0..1000
                   /\ level * 255 * frequencyBinCount <= total * 1000
                   /\ total * 1000 < (level + 1) * 255 * frequencyBinCount
                   /\ total = 0 => level = 0
                   /\ total = 255 * frequencyBinCount => level = 1000
                   /\ audio' = [audio EXCEPT !.analyserData = data] ]_vars

\* a tick on a playing engine whose analyser holds a full-scale spectrum
C15_Witness ==
    /\ audio.initialized
    /\ audio.isPlaying
    /\ last[1] = "animate"
    /\ audio.analyserData[frequencyBinCount] = 255
    /\ scene.audioLevel = 1000

\* C16: a touch-start, touch-move or touch-end whose first touch point is
\* (cx, cy) leaves exactly the interaction state, scene state and engine state
\* that a mouse-down, mouse-move or mouse-up at (cx, cy) leaves from the same
\* state; a touch-start or touch-move with no touch point changes nothing.
C16_TouchIsMouse ==
    [][ LET p == <<last'[2] \div 1000, last'[2] % 1000>>
        IN  /\ (last'[1] = "touchstart" /\ last'[2] >= 0) => onMouseDown(p)
            /\ (last'[1] = "touchmove" /\ last'[2] >= 0) => onMouseMove(p)
            /\ last'[1] = "touchend" => onMouseUp
            /\ (last'[1] \in {"touchstart", "touchmove"} /\ last'[2] < 0) =>
                  UNCHANGED <<audio, scene, ctl, pending, unhandledRejection>> ]_vars

\* a drag begun by a touch outside the canvas and moved by a touch inside it
C16_Witness ==
    /\ audio.initialized
    /\ ctl.isDragging
    /\ last = <<"touchmove", PointCode(<<RectLeft + RectWidth - 1, RectTop + RectHeight \div 2>>)>>
    /\ ctl.dragStartX = RectLeft + RectWidth + 2
    /\ ctl.mouseX = 900
    /\ audio.delayTime = 150

\* C17: the stored normalized pointer position (mouseX, mouseY) lies in
\* [0,1]^2 in every reachable state, touch points outside the canvas rectangle
\* included.
C17_PointerInUnitSquare ==
    /\ ctl.mouseX \in 0..1000
    /\ ctl.mouseY \in 0..1000

\* C18 as stated, its last part: drag-end clears the flag and the drag origin.
C18_DragEndClearsOrigin ==
    [][ last'[1] \in {"mouseup", "touchend"} =>
          /\ ~ctl'.isDragging
          /\ ctl'.dragStartX = 0
          /\ ctl'.dragStartY = 0 ]_vars

\* C18 amended: a mouse-down or a touch-start with a touch point sets the drag
\* flag and makes that event's position the drag origin; a mouse-up or
\* touch-end clears the flag and leaves the origin as it is; no other step
\* changes either, so the flag is set exactly from a drag-start to the next
\* drag-end and the origin is always the position of the latest drag-start.
C18_DragLifecycle ==
    [][ LET dragStart == \/ last'[1] = "mousedown"
                         \/ (last'[1] = "touchstart" /\ last'[2] >= 0)
            dragEnd   == last'[1] \in {"mouseup", "touchend"}
        IN  /\ dragStart =>
                  /\ ctl'.isDragging
                  /\ ctl'.dragStartX = last'[2] \div 1000
                  /\ ctl'.dragStartY = last'[2] % 1000
            /\ dragEnd =>
                  /\ ~ctl'.isDragging
                  /\ ctl'.dragStartX = ctl.dragStartX
                  /\ ctl'.dragStartY = ctl.dragStartY
            /\ (~dragStart /\ ~dragEnd) =>
                  /\ ctl'.isDragging = ctl.isDragging
                  /\ ctl'.dragStartX = ctl.dragStartX
                  /\ ctl'.dragStartY = ctl.dragStartY ]_vars

\* a drag begun by a touch outside the canvas has ended; its origin is still
\* stored
C18_Witness ==
    /\ ~ctl.isDragging
    /\ last[1] = "touchend"
    /\ ctl.dragStartX = RectLeft + RectWidth + 2
    /\ ctl.dragStartY = RectTop - 5

\* C19: once the engine is initialized the gain envelope's target is 0.5 when
\* isPlaying and 0 otherwise, after every step; on the initialized engine no
\* call other than start() and stop() changes the target or isPlaying.
C19_GainFollowsPlayback ==
    [][ /\ audio'.initialized =>
             audio'.gainNode = IF audio'.isPlaying THEN 500 ELSE 0
        /\ ~audio'.initialized =>
             (audio'.gainNode = Undefined /\ ~audio'.isPlaying)
        /\ (audio.initialized /\ last'[1] \notin {"start", "stop"}) =>
             /\ audio'.gainNode = audio.gainNode
             /\ audio'.isPlaying = audio.isPlaying ]_vars

\* a playing engine, its waveform just swapped, the gain target still 0.5
C19_Witness ==
    /\ audio.initialized
    /\ audio.isPlaying
    /\ audio.gainNode = 500
    /\ last[1] = "setWaveform"
    /\ audio.oscType = "triangle"

\* the nodes one connection after a node of S, and S
Successors(E, S) == S \cup { e[2] : e \in { d \in E : d[1] \in S } }

\* the nodes reachable from S along the connections E
RECURSIVE Reach(_, _)
Reach(E, S) == IF Successors(E, S) = S THEN S ELSE Reach(E, Successors(E, S))

\* the nodes that lie on a directed cycle of E
OnCycle(E) ==
    { n \in { e[1] : e \in E } : n \in Reach(E, { e[2] : e \in { d \in E : d[1] = n } }) }

\* every path of E from node from to node to passes through node via
PassesThrough(E, from, to, via) ==
    to \notin Reach({ e \in E : e[1] # via /\ e[2] # via }, {from})

\* C20: after initialization and any waveform swaps the graph has exactly one
\* directed cycle, delayNode -> delayFeedback -> delayNode, the destination is
\* reachable from the oscillator, and every path from the oscillator to the
\* destination passes through the gain node, the filter, the analyser and the
\* master gain.
C20_OneCycleAndDominators ==
    audio.initialized =>
        LET g    == audio.graphs
            E    == audio.edges
            loop == { Node("delayNode", g), Node("delayFeedback", g) }
            osc  == Oscillator(audio.oscillator)
            out  == Node("destination", g)
        IN  /\ OnCycle(E) = loop
            /\ { e \in E : e[1] \in loop /\ e[2] \in loop } =
                 { <<Node("delayNode", g), Node("delayFeedback", g)>>,
                   <<Node("delayFeedback", g), Node("delayNode", g)>> }
            /\ out \in Reach(E, {osc})
            /\ \A kind \in {"gainNode", "filter", "analyser", "masterGain"} :
                 PassesThrough(E, osc, out, Node(kind, g))

\* the graph after a waveform swap on a playing engine
C20_Witness ==
    /\ audio.initialized
    /\ audio.isPlaying
    /\ last[1] = "setWaveform"
    /\ audio.oscType = "sawtooth"
    /\ <<Oscillator(audio.oscillator), Node("gainNode", 1)>> \in audio.edges
    /\ Cardinality(audio.edges) = 15

\* the waveform a recorded selection names
Selected(code) ==
    CASE code = 11 -> "sine" [] code = 12 -> "square"
      [] code = 13 -> "sawtooth" [] code = 14 -> "triangle"

\* C21: however waveform selections (keys q/w/e/r, waveform buttons) and
\* initialization interleave, the stored waveform is the one selected last
\* (sine before any selection): a selection stores its waveform, no other step
\* changes it; whenever the engine is initialized the oscillator's type is the
\* stored waveform, and init() builds the graph with the waveform stored before.
C21_WaveformFollowsSelection ==
    [][ LET selection == \/ last'[1] = "wavebutton"
                         \/ (last'[1] = "keydown" /\ last'[2] \in 11..14)
        IN  /\ last[1] = "new" => audio.waveform = "sine"
            /\ selection => audio'.waveform = Selected(last'[2])
            /\ ~selection => audio'.waveform = audio.waveform
            /\ audio'.initialized => audio'.oscType = audio'.waveform
            /\ (~audio.initialized /\ audio'.initialized) =>
                  audio'.oscType = audio.waveform ]_vars

\* square was selected before the activation that built the graph, whose
\* continuation is still pending
C21_Witness ==
    /\ audio.initialized
    /\ ~audio.isPlaying
    /\ last = <<"click", 1>>
    /\ Len(pending) = 1
    /\ completed = 0
    /\ audio.waveform = "square"
    /\ audio.oscType = "square"

\* C23: on an initialized engine the dry gain and the reverb wet gain are
\* complementary in every reachable state: the dry gain's target is
\* 1 - reverbMix and the wet gain's target is reverbMix, drags and drag-ends
\* included.
C23_DryWetComplementary ==
    audio.initialized =>
        /\ audio.dryGain = 1000 - audio.reverbMix
        /\ audio.reverbMixNode = audio.reverbMix

C24_InputNotReplayed ==
    [][ LET wheel == last'[1] = "wheel"
            move  == last'[1] = "mousemove"
        IN  /\ ~audio'.initialized =>
                  /\ audio'.currentFrequency = 440000
                  /\ audio'.filterFrequency = 1000000
                  /\ audio'.filterQ = 5000
            /\ (~audio'.initialized /\ wheel) =>
                  scene'.currentScale =
                      Max(5, Min(30, scene.currentScale + (IF last'[2] > 0 THEN 0 - 1 ELSE 1)))
            /\ (~audio'.initialized /\ move) =>
                  (ctl'.mouseX = LastX' /\ ctl'.mouseY = LastY')
            /\ (~audio.initialized /\ audio'.initialized) =>
                  /\ audio'.currentFrequency = 440000
                  /\ audio'.oscFrequency = 440000
                  /\ audio'.filterFrequency = 1000000
                  /\ audio'.filterNodeFreq = 1000000
                  /\ audio'.filterQ = 5000
                  /\ audio'.filterNodeQ = 5000
                  /\ scene' = scene
                  /\ ctl' = ctl
            /\ (audio.initialized /\ ~wheel) =>
                  audio'.currentFrequency = audio.currentFrequency
            /\ (audio.initialized /\ ~move) =>
                  /\ audio'.filterFrequency = audio.filterFrequency
                  /\ audio'.filterQ = audio.filterQ ]_vars

\* the scale was wheeled to 3.0 and the pointer moved to the far corner before
\* the activation; the engine, now playing, is still at its defaults
C24_Witness ==
    /\ audio.initialized
    /\ audio.isPlaying
    /\ scene.currentScale = 30
    /\ ctl.mouseX = 1000
    /\ ctl.mouseY = 1000
    /\ audio.currentFrequency = 440000
    /\ audio.oscFrequency = 440000
    /\ audio.filterFrequency = 1000000
    /\ audio.filterQ = 5000

====
